---- MODULE Spec2Model ----
(***************************************************************************)
(* Model of the TriageOS dashboard client: the process bridge              *)
(* (gui/bridge.py), the response listener, the state reconciler            *)
(* (DashboardFrame._process_response), the user handlers and the           *)
(* deterioration scheduler (gui/dashboard.py).  The backend process is a   *)
(* black box that speaks the line protocol of bridge.py's docstring.       *)
(* Of the login frame (gui/login_window.py) the listener and the login     *)
(* attempt are modelled, for the logout path.  Left out: MERGE (mass       *)
(* casualty), CHANGE_PASS and the refresh button, which only sends STATS.  *)
(* The vitals and EKG simulation of PatientViewModel is modelled on one    *)
(* view model, apart from the reconciler.                                  *)
(***************************************************************************)
EXTENDS Integers, Sequences, FiniteSets, TLC

(* ------------------------------ bounds --------------------------------- *)
\* number of ADD dialogs the user submits in one run
MaxAdds == 2
\* number of dialogs of any kind (add, discharge, update, leave) the user submits
MaxCommands == 4
\* user commands are issued only while fewer than this many lines/tasks are in flight
MaxInFlight == 2
\* lines written to one backend process through the bridge
MaxLines == 2
\* animation frames of one view model with drift noise drawn
MaxDriftFrames == 30
\* animation frames of one view model with quiet drift
MaxFrames == 200
\* heap cells for PatientViewModel objects (never the binding limit, see HeapRoom)
MaxObjs == 2 * MaxAdds + 3

(* ------------------------------ inputs --------------------------------- *)
\* text typed into the name entry: " a b" (leading blank) and "a_ b"
\* (an underscore followed by a blank)
NameInputs == { <<" ", "a", " ", "b">>, <<"a", "_", " ", "b">> }
AgeInputs == { 30 }
PrioInputs == { 1, 5 }
CondInputs == { <<"x">> }

(* --------------------------- pure helpers ------------------------------ *)
Range(s) == { s[i] : i \in 1..Len(s) }

\* str.replace(old, new) for single characters
Replace(s, old, new) == [i \in 1..Len(s) |-> IF s[i] = old THEN new ELSE s[i]]

\* str.strip(): drop leading and trailing blanks
RECURSIVE LStrip(_)
LStrip(s) == IF s # <<>> /\ Head(s) = " " THEN LStrip(Tail(s)) ELSE s
RECURSIVE RStrip(_)
RStrip(s) == IF s # <<>> /\ s[Len(s)] = " " THEN RStrip(SubSeq(s, 1, Len(s) - 1)) ELSE s
Strip(s) == RStrip(LStrip(s))

\* a lookup whose two most urgent bands are exchanged
CalcBaseHrSwapped(priority) ==
  IF priority = 1 THEN 100 ELSE IF priority <= 3 THEN 110
  ELSE IF priority <= 6 THEN 80 ELSE 70

\* PatientViewModel._calc_base_hr, _calc_base_spo2, _calc_base_bp_sys and
\* _calc_base_bp_dia, as functions of self.priority
CalcBaseHr(priority) ==
  IF priority = 1 THEN 110 ELSE IF priority <= 3 THEN 100
  ELSE IF priority <= 6 THEN 80 ELSE 70

CalcBaseSpo2(priority) ==
  IF priority = 1 THEN 91 ELSE IF priority <= 3 THEN 94 ELSE 98

CalcBaseBpSys(priority) ==
  IF priority = 1 THEN 155 ELSE IF priority <= 3 THEN 135 ELSE 120

CalcBaseBpDia(priority) ==
  IF priority = 1 THEN 95 ELSE IF priority <= 3 THEN 88 ELSE 80

\* self._arrhythmia_factor = 0.15 if self.priority == 1 else 0.0, in hundredths
ArrhythmiaFactor(priority) == IF priority = 1 THEN 15 ELSE 0

\* PatientViewModel(pid, name, age, priority, condition): the baselines and the
\* arrhythmia factor are computed here, from the priority given to the constructor
PatientViewModel(pid, name, age, priority, condition) ==
  [id |-> pid, name |-> name, age |-> age, priority |-> priority, condition |-> condition,
   base_hr |-> CalcBaseHr(priority), base_spo2 |-> CalcBaseSpo2(priority),
   base_bp_sys |-> CalcBaseBpSys(priority), base_bp_dia |-> CalcBaseBpDia(priority),
   arrhythmia_factor |-> ArrhythmiaFactor(priority)]

NoLine == [cmd |-> "none"]

(* ------------------------------- state --------------------------------- *)
VARIABLES
  objs,              \* heap: object reference -> PatientViewModel fields
  patients,          \* DashboardFrame.patients: list of object references
  selected_patient,  \* DashboardFrame.selected_patient: reference, 0 = None
  pending_extract,   \* DashboardFrame.pending_extract
  current_diagnosis, \* DashboardFrame.current_diagnosis: TRUE when a text is stored
  patient_count,     \* DashboardFrame.patient_count
  estimated_wait,    \* DashboardFrame.estimated_wait
  status,            \* text of status_label
  running,           \* DashboardFrame.running
  uiTasks,           \* Tk deferred-task queue: after(0, ...) callbacks, FIFO
  timers,            \* Tk timers not yet fired: after(500), after(600)
  is_running,        \* SystemBridge.is_running
  proc,              \* SystemBridge.process: "alive", "exited" (handle kept), "none"
  stdin,             \* lines written to the backend and not yet consumed by it
  stdout,            \* lines written by the backend and not yet read
  bq,                \* backend: queue entries in arrival order
  nextId,            \* backend: next identifier to assign
  listenPc,          \* listener thread position
  simPc,             \* scheduler thread position
  simPick,           \* scheduler's local variable patient, 0 = none
  monPc,             \* liveness poller position
  addCount,          \* ADD dialogs submitted so far
  cmdCount,          \* dialogs submitted so far
  last,              \* the step just taken: operation, context, input line, notice shown
  lock,              \* SystemBridge.lock: the caller holding it, 0 = free
  bpc,               \* per caller of the bridge: position inside start / send_command / close
  wire,              \* chunks written to the backend's stdin by send_command and close
  ret,               \* per caller: what its last bridge call returned
  sig,               \* what the running or last close() did, stage by stage
  vm,                \* vitals and EKG state of the view model that animate() drives
  hist,              \* cardiac cycles seen by that view model: beats raised per cycle
  login              \* login frame: its listener's position and is_logged_in

uiVars == <<objs, patients, selected_patient, pending_extract, current_diagnosis,
            patient_count, estimated_wait, status>>
queueVars == <<uiTasks, timers>>
bridgeVars == <<is_running, proc, stdin, stdout>>
backendVars == <<bq, nextId>>
threadVars == <<listenPc, simPc, simPick, monPc>>
userVars == <<addCount, cmdCount>>
callVars == <<lock, bpc, wire, ret, sig>>
vitalVars == <<vm, hist>>
vars == <<uiVars, running, queueVars, bridgeVars, backendVars, threadVars, userVars, last,
          callVars, vitalVars, login>>

(* ------------------------------- heap ---------------------------------- *)
\* objects still referenced by the list, the selection or the scheduler thread
Gc(heap, ps, sel, pick) ==
  [o \in ((Range(ps) \cup {sel, pick}) \ {0}) \cap DOMAIN heap |-> heap[o]]

HeapRoom(heap) == Cardinality(DOMAIN heap) < MaxObjs

NewRef(heap) ==
  CHOOSE o \in 1..MaxObjs : o \notin DOMAIN heap /\ \A q \in 1..(o - 1) : q \in DOMAIN heap

Alloc(heap, o, rec) == [x \in DOMAIN heap \cup {o} |-> IF x = o THEN rec ELSE heap[x]]

\* the record of the step just taken
Step(op, ctx, line, notice) == [op |-> op, ctx |-> ctx, line |-> line, notice |-> notice]

InFlight == Len(stdin) + Len(stdout) + Len(uiTasks)

\* the user submits a dialog only after the start-up timers (0.5 s and 0.6 s)
\* have fired, and while fewer than MaxInFlight lines and tasks are in flight
UserReady == running /\ timers = {} /\ InFlight < MaxInFlight /\ cmdCount < MaxCommands

\* the backend and the listener are fast next to the Tk event loop and the
\* scheduler: those two take a step once the pipes have been drained into
\* the deferred-task queue
Drained == (proc = "alive" => stdin = <<>>) /\ (listenPc = "reading" => stdout = <<>>)


(* ------------------------- SystemBridge -------------------------------- *)
\* SystemBridge.send_command on the bridge fields b = [run, in]; the caller
\* holds the lock for the whole call, so the call is one step
SendCommand(b, cmd) ==
  IF ~b.run \/ proc = "none" THEN b
  ELSE IF proc # "alive" THEN [b EXCEPT !.run = FALSE]
  ELSE [b EXCEPT !.in = Append(@, cmd)]

RECURSIVE SendAll(_, _)
SendAll(b, cmds) ==
  IF cmds = <<>> THEN b ELSE SendAll(SendCommand(b, Head(cmds)), Tail(cmds))

Bridge == [run |-> is_running, in |-> stdin]

\* the handler's writes, applied to the bridge; the read side is untouched
Sends(cmds) ==
  /\ is_running' = SendAll(Bridge, cmds).run
  /\ stdin' = SendAll(Bridge, cmds).in
  /\ UNCHANGED <<proc, stdout>>

(* ------------------------ backend process ------------------------------ *)
MinPrio(q) == { i \in 1..Len(q) : \A j \in 1..Len(q) : q[i].prio <= q[j].prio }

RemoveAt(q, i) == SubSeq(q, 1, i - 1) \o SubSeq(q, i + 1, Len(q))

ListLines(q) ==
  [i \in 1..Len(q) |-> [cmd |-> "LIST_DATA", id |-> q[i].id, prio |-> q[i].prio,
                         age |-> q[i].age, name |-> q[i].name, desc |-> q[i].desc]]

HasEntry(q, id) == \E i \in 1..Len(q) : q[i].id = id

\* the backend reads one command line and answers it
BackendStep ==
  /\ proc = "alive"
  /\ stdin # <<>>
  /\ LET c == Head(stdin) IN
     /\ stdin' = Tail(stdin)
     /\ \/ /\ c.cmd = "ADD"
           /\ bq' = Append(bq, [id |-> nextId, prio |-> c.prio, age |-> c.age,
                                name |-> c.name, desc |-> c.desc])
           /\ nextId' = nextId + 1
           /\ stdout' = Append(stdout, [cmd |-> "SUCCESS_ADD", name |-> c.name, id |-> nextId])
        \/ /\ c.cmd = "EXTRACT"
           /\ bq = <<>>
           /\ stdout' = Append(stdout, [cmd |-> "EMPTY"])
           /\ UNCHANGED <<bq, nextId>>
        \/ /\ c.cmd = "EXTRACT"
           /\ \E i \in MinPrio(bq) :
                /\ bq' = RemoveAt(bq, i)
                /\ stdout' = Append(stdout, [cmd |-> "DATA", id |-> bq[i].id, prio |-> bq[i].prio,
                                             age |-> bq[i].age, name |-> bq[i].name,
                                             desc |-> bq[i].desc])
           /\ UNCHANGED nextId
        \/ /\ c.cmd = "UPDATE"
           /\ bq' = [i \in 1..Len(bq) |-> IF bq[i].id = c.id THEN [bq[i] EXCEPT !.prio = c.prio]
                                          ELSE bq[i]]
           /\ stdout' = Append(stdout, IF HasEntry(bq, c.id) THEN [cmd |-> "SUCCESS_UPDATE"]
                                       ELSE [cmd |-> "ERROR_NOT_FOUND"])
           /\ UNCHANGED nextId
        \/ /\ c.cmd = "LEAVE"
           /\ bq' = SelectSeq(bq, LAMBDA e : e.id # c.id)
           /\ stdout' = Append(stdout, IF HasEntry(bq, c.id)
                                       THEN [cmd |-> "SUCCESS_REMOVE", id |-> c.id]
                                       ELSE [cmd |-> "ERROR_NOT_FOUND"])
           /\ UNCHANGED nextId
        \/ /\ c.cmd = "STATS"
           /\ stdout' = Append(stdout, [cmd |-> "STATS", count |-> Len(bq), wait |-> Len(bq)])
           /\ UNCHANGED <<bq, nextId>>
        \/ /\ c.cmd = "LIST"
           /\ stdout' = stdout \o ListLines(bq)
           /\ UNCHANGED <<bq, nextId>>
  /\ last' = Step("BackendStep", "backend", Head(stdin), "none")
  /\ UNCHANGED <<uiVars, running, queueVars, is_running, proc, threadVars, userVars>>
  /\ UNCHANGED <<callVars, vitalVars, login>>

\* the backend process dies between two commands, with the pipes and the
\* deferred-task queue empty: a death with lines in flight differs from this
\* one only in the order of steps that do not depend on each other
BackendCrash ==
  /\ proc = "alive"
  /\ running
  /\ stdin = <<>> /\ stdout = <<>> /\ uiTasks = <<>>
  /\ proc' = "exited"
  /\ last' = Step("BackendCrash", "backend", NoLine, "none")
  /\ UNCHANGED <<uiVars, running, queueVars, is_running, stdin, stdout, backendVars, threadVars,
                 userVars>>
  /\ UNCHANGED <<callVars, vitalVars, login>>

(* ----------------------- reconciler helpers ---------------------------- *)
\* the comparison of names left out
NameMatchesAny(rec, name) == TRUE

\* a comprehension that drops the unconfirmed records as well
RemoveKeepConfirmed(ps, heap, pid) ==
  SelectSeq(ps, LAMBDA o : heap[o].id # pid /\ heap[o].id # 0)

\* patient.name == name or patient.name == display_name
NameMatches(rec, name) == rec.name = name \/ rec.name = Replace(name, "_", " ")

\* the membership test left out: every listed or peeked record counts as new
HasIdNever(ps, heap, pid) == FALSE

\* any(p.id == pid for p in self.patients)
HasId(ps, heap, pid) == \E i \in 1..Len(ps) : heap[ps[i]].id = pid

\* positions of the unconfirmed records a SUCCESS_ADD for name may confirm
Unconfirmed(ps, heap, name) ==
  { i \in 1..Len(ps) : heap[ps[i]].id = 0 /\ NameMatches(heap[ps[i]], name) }

\* the loop without its break: the last matching record keeps the id
AssignIdLast(ps, heap, name, pid) ==
  LET m == Unconfirmed(ps, heap, name) IN
  IF m = {} THEN heap
  ELSE LET i == CHOOSE k \in m : \A j \in m : k >= j IN [heap EXCEPT ![ps[i]].id = pid]

\* the SUCCESS_ADD loop: the first unconfirmed record with a matching name
\* gets the id, then break
AssignId(ps, heap, name, pid) ==
  LET m == Unconfirmed(ps, heap, name) IN
  IF m = {} THEN heap
  ELSE LET i == CHOOSE k \in m : \A j \in m : k <= j IN [heap EXCEPT ![ps[i]].id = pid]

\* the list comprehension of the extraction branch
ExtractKeep(ps, heap, pid, name) ==
  SelectSeq(ps, LAMBDA o : ~(heap[o].id = pid \/ (heap[o].id = 0 /\ NameMatches(heap[o], name))))

\* the selection after the extraction branch
ExtractSelection(sel, heap, pid, name) ==
  IF sel # 0 /\ (heap[sel].id = pid \/ NameMatches(heap[sel], name)) THEN 0 ELSE sel

\* the list comprehension of SUCCESS_REMOVE
RemoveKeep(ps, heap, pid) == SelectSeq(ps, LAMBDA o : heap[o].id # pid)

\* the flag left as it was
ClearPendingKeep(pending) == pending

\* pending_extract after a DATA or EMPTY line has been handled
ClearPending(pending) == FALSE

\* no message box for an EMPTY line
EmptyNoticeSilent(pending) == "none"

\* messagebox.showinfo("Empty Queue", ...) of the EMPTY branch, shown whatever
\* the flag was
EmptyNotice(pending) == "empty"

\* a callback put in front of the callbacks already waiting
EnqueueFront(q, task) == <<task>> \o q

\* self.after(0, callback): Tk runs the callbacks in the order they were registered
Enqueue(q, task) == Append(q, task)

\* a task of the deferred queue that carries a response line
RespTask(kind) ==
  /\ uiTasks # <<>>
  /\ Head(uiTasks).t = "resp"
  /\ Head(uiTasks).line.cmd = kind
  /\ running

Line == Head(uiTasks).line

(* ------------------- DashboardFrame._process_response ------------------- *)
ProcessSuccessAdd ==
  /\ Drained
  /\ RespTask("SUCCESS_ADD")
  /\ uiTasks' = Tail(uiTasks)
  /\ objs' = AssignId(patients, objs, Line.name, Line.id)
  /\ Sends(<<[cmd |-> "STATS"]>>)
  /\ last' = Step("SUCCESS_ADD", "ui", Line, "added")
  /\ UNCHANGED <<patients, selected_patient, pending_extract, current_diagnosis, patient_count,
                 estimated_wait, status, running, timers, backendVars, threadVars, userVars>>
  /\ UNCHANGED <<callVars, vitalVars, login>>

ProcessDataExtract ==
  /\ Drained
  /\ RespTask("DATA")
  /\ pending_extract
  /\ uiTasks' = Tail(uiTasks)
  /\ pending_extract' = ClearPending(pending_extract)
  /\ patients' = ExtractKeep(patients, objs, Line.id, Line.name)
  /\ selected_patient' = ExtractSelection(selected_patient, objs, Line.id, Line.name)
  /\ objs' = Gc(objs, patients', selected_patient', simPick)
  /\ Sends(<<[cmd |-> "STATS"], [cmd |-> "LIST"]>>)
  /\ current_diagnosis' = FALSE
  /\ last' = Step("DATA_extract", "ui", Line, "discharged")
  /\ UNCHANGED <<patient_count, estimated_wait, status, running, timers, backendVars,
                 threadVars, userVars>>
  /\ UNCHANGED <<callVars, vitalVars, login>>

ProcessDataPeek ==
  /\ Drained
  /\ RespTask("DATA")
  /\ ~pending_extract
  /\ HeapRoom(objs)
  /\ uiTasks' = Tail(uiTasks)
  /\ LET o == NewRef(objs)
         heap == Alloc(objs, o, PatientViewModel(Line.id, Line.name, Line.age, Line.prio, Line.desc))
     IN /\ patients' = IF ~HasId(patients, objs, Line.id) THEN Append(patients, o) ELSE patients
        /\ selected_patient' = o
        /\ objs' = Gc(heap, patients', o, simPick)
  /\ last' = Step("DATA_peek", "ui", Line, "none")
  /\ UNCHANGED <<pending_extract, current_diagnosis, patient_count, estimated_wait, status,
                 running, timers, bridgeVars, backendVars, threadVars, userVars>>
  /\ UNCHANGED <<callVars, vitalVars, login>>

ProcessEmpty ==
  /\ Drained
  /\ RespTask("EMPTY")
  /\ uiTasks' = Tail(uiTasks)
  /\ pending_extract' = ClearPending(pending_extract)
  /\ last' = Step("EMPTY", "ui", Line, EmptyNotice(pending_extract))
  /\ UNCHANGED <<objs, patients, selected_patient, current_diagnosis, patient_count,
                 estimated_wait, status, running, timers, bridgeVars, backendVars,
                 threadVars, userVars>>
  /\ UNCHANGED <<callVars, vitalVars, login>>

ProcessStats ==
  /\ Drained
  /\ RespTask("STATS")
  /\ uiTasks' = Tail(uiTasks)
  /\ patient_count' = Line.count
  /\ estimated_wait' = Line.wait
  /\ last' = Step("STATS", "ui", Line, "none")
  /\ UNCHANGED <<objs, patients, selected_patient, pending_extract, current_diagnosis, status,
                 running, timers, bridgeVars, backendVars, threadVars, userVars>>
  /\ UNCHANGED <<callVars, vitalVars, login>>

ProcessListData ==
  /\ Drained
  /\ RespTask("LIST_DATA")
  /\ HeapRoom(objs)
  /\ uiTasks' = Tail(uiTasks)
  /\ IF ~HasId(patients, objs, Line.id)
     THEN LET o == NewRef(objs) IN
          /\ objs' = Alloc(objs, o, PatientViewModel(Line.id, Replace(Line.name, "_", " "),
                                                     Line.age, Line.prio,
                                                     Replace(Line.desc, "_", " ")))
          /\ patients' = Append(patients, o)
     ELSE UNCHANGED <<objs, patients>>
  /\ last' = Step("LIST_DATA", "ui", Line, "none")
  /\ UNCHANGED <<selected_patient, pending_extract, current_diagnosis, patient_count,
                 estimated_wait, status, running, timers, bridgeVars, backendVars, threadVars,
                 userVars>>
  /\ UNCHANGED <<callVars, vitalVars, login>>

ProcessSuccessUpdate ==
  /\ Drained
  /\ RespTask("SUCCESS_UPDATE")
  /\ uiTasks' = Tail(uiTasks)
  /\ Sends(<<[cmd |-> "STATS"]>>)
  /\ last' = Step("SUCCESS_UPDATE", "ui", Line, "updated")
  /\ UNCHANGED <<uiVars, running, timers, backendVars, threadVars, userVars>>
  /\ UNCHANGED <<callVars, vitalVars, login>>

ProcessSuccessRemove ==
  /\ Drained
  /\ RespTask("SUCCESS_REMOVE")
  /\ uiTasks' = Tail(uiTasks)
  /\ patients' = RemoveKeep(patients, objs, Line.id)
  /\ selected_patient' = IF selected_patient # 0 /\ objs[selected_patient].id = Line.id
                         THEN 0 ELSE selected_patient
  /\ objs' = Gc(objs, patients', selected_patient', simPick)
  /\ Sends(<<[cmd |-> "STATS"]>>)
  /\ last' = Step("SUCCESS_REMOVE", "ui", Line, "none")
  /\ UNCHANGED <<pending_extract, current_diagnosis, patient_count, estimated_wait, status,
                 running, timers, backendVars, threadVars, userVars>>
  /\ UNCHANGED <<callVars, vitalVars, login>>

\* elif cmd.startswith("ERROR"): the line is shown, nothing else happens
ProcessError ==
  /\ Drained
  /\ RespTask("ERROR_NOT_FOUND")
  /\ uiTasks' = Tail(uiTasks)
  /\ last' = Step("ERROR", "ui", Line, "error")
  /\ UNCHANGED <<uiVars, running, timers, bridgeVars, backendVars, threadVars, userVars>>
  /\ UNCHANGED <<callVars, vitalVars, login>>

(* -------------------- lines outside the wire protocol ------------------- *)
\* tokens of a raw line, as line.split() yields them: a word, a decimal
\* number, and a word that starts with a prefix such as "ID:" or "COUNT:"
Word(w) == [pre |-> "", w |-> w, num |-> FALSE, n |-> 0]
Num(n) == [pre |-> "", w |-> "", num |-> TRUE, n |-> n]
Tagged(pre, rest) == [pre |-> pre, w |-> rest.w, num |-> rest.num, n |-> rest.n]

\* raw lines the backend may write although the protocol has no such line
MalformedLines ==
  { [cmd |-> "RAW", parts |-> <<Word("SUCCESS_REMOVE")>>],
    [cmd |-> "RAW", parts |-> <<Word("STATS"), Tagged("COUNT:", Num(7)), Tagged("WAIT:", Word("x"))>>],
    [cmd |-> "RAW", parts |-> <<Word("DATA"), Word("x"), Num(1), Num(30), Word("a"), Word("x")>>],
    [cmd |-> "RAW", parts |-> <<Word("DATA"), Num(1), Num(1)>>],
    [cmd |-> "RAW", parts |-> <<Word("SUCCESS_ADD"), Word("a"), Tagged("ID:", Word("x"))>>],
    [cmd |-> "RAW", parts |-> <<Word("BOGUS")>>] }

\* int(token) raises ValueError unless the token is a decimal number
IntRaises(tok) == ~tok.num

\* the STATS loop over parts[1:]: st = [count, wait, raised]; the loop stops at
\* the first token int() rejects, with the earlier assignments done
RECURSIVE StatsLoop(_, _)
StatsLoop(st, toks) ==
  IF toks = <<>> \/ st.raised THEN st
  ELSE LET t == Head(toks) IN
       IF t.pre = "COUNT:"
       THEN IF IntRaises(t) THEN [st EXCEPT !.raised = TRUE]
            ELSE StatsLoop([st EXCEPT !.count = t.n], Tail(toks))
       ELSE IF t.pre = "WAIT:"
       THEN IF IntRaises(t) THEN [st EXCEPT !.raised = TRUE]
            ELSE StatsLoop([st EXCEPT !.wait = t.n], Tail(toks))
       ELSE StatsLoop(st, Tail(toks))

\* the backend writes a line that is not a line of the protocol
BackendGarble(l) ==
  /\ proc = "alive"
  /\ running
  /\ stdin = <<>>
  /\ InFlight < MaxInFlight
  /\ stdout' = Append(stdout, l)
  /\ last' = Step("BackendGarble", "backend", l, "none")
  /\ UNCHANGED <<uiVars, running, queueVars, is_running, proc, stdin, backendVars, threadVars,
                 userVars>>
  /\ UNCHANGED <<callVars, vitalVars, login>>

\* _process_response on a raw line, branch by branch; an exception leaves the
\* handler at the statement that raised it and Tk reports it
ProcessMalformed ==
  /\ Drained
  /\ RespTask("RAW")
  /\ uiTasks' = Tail(uiTasks)
  /\ LET parts == Line.parts
         cmd == parts[1].w
     IN \/ /\ cmd = "SUCCESS_REMOVE"
           /\ LET raises == Len(parts) > 1 /\ IntRaises(parts[2])
                  pid == IF Len(parts) > 1 THEN parts[2].n ELSE 0
              IN IF raises
                 THEN /\ last' = Step("malformed", "ui", Line, "exception")
                      /\ UNCHANGED <<patients, selected_patient, objs, bridgeVars>>
                 ELSE /\ patients' = RemoveKeep(patients, objs, pid)
                      /\ selected_patient' =
                           IF selected_patient # 0 /\ objs[selected_patient].id = pid
                           THEN 0 ELSE selected_patient
                      /\ objs' = Gc(objs, patients', selected_patient', simPick)
                      /\ Sends(<<[cmd |-> "STATS"]>>)
                      /\ last' = Step("malformed", "ui", Line, "none")
           /\ UNCHANGED <<patient_count, estimated_wait>>
        \/ /\ cmd = "STATS"
           /\ LET st == StatsLoop([count |-> patient_count, wait |-> estimated_wait,
                                   raised |-> FALSE], Tail(parts))
              IN /\ patient_count' = st.count
                 /\ estimated_wait' = st.wait
                 /\ last' = Step("malformed", "ui", Line,
                                 IF st.raised THEN "exception" ELSE "none")
           /\ UNCHANGED <<patients, selected_patient, objs, bridgeVars>>
        \/ /\ cmd = "DATA"
           /\ last' = Step("malformed", "ui", Line,
                           IF Len(parts) >= 6 /\ \E i \in 2..4 : IntRaises(parts[i])
                           THEN "exception" ELSE "none")
           /\ Len(parts) >= 6 => \E i \in 2..4 : IntRaises(parts[i])
           /\ UNCHANGED <<patients, selected_patient, objs, bridgeVars, patient_count,
                          estimated_wait>>
        \/ /\ cmd = "SUCCESS_ADD"
           /\ \E i \in 1..Len(parts) : parts[i].pre = "ID:" /\ IntRaises(parts[i])
           /\ last' = Step("malformed", "ui", Line, "exception")
           /\ UNCHANGED <<patients, selected_patient, objs, bridgeVars, patient_count,
                          estimated_wait>>
        \/ /\ cmd \notin {"SUCCESS_REMOVE", "STATS", "DATA", "SUCCESS_ADD"}
           /\ last' = Step("malformed", "ui", Line, "none")
           /\ UNCHANGED <<patients, selected_patient, objs, bridgeVars, patient_count,
                          estimated_wait>>
  /\ UNCHANGED <<pending_extract, current_diagnosis, status, running, timers, backendVars,
                 threadVars, userVars>>
  /\ UNCHANGED <<callVars, vitalVars, login>>

(* --------------------------- user handlers ------------------------------ *)
\* _on_add_patient.submit
OnAddPatientSubmit(name_raw, age, prio, cond_raw) ==
  /\ Drained
  /\ UserReady
  /\ addCount < MaxAdds
  /\ HeapRoom(objs)
  /\ LET name_input == Strip(name_raw)
         cond_input == Strip(cond_raw)
         o == NewRef(objs)
     IN /\ 1 <= prio /\ prio <= 10
        /\ name_input # <<>> /\ cond_input # <<>>
        /\ Sends(<<[cmd |-> "ADD", prio |-> prio, age |-> age,
                    name |-> Replace(name_input, " ", "_"),
                    desc |-> Replace(cond_input, " ", "_")]>>)
        /\ objs' = Alloc(objs, o, PatientViewModel(0, name_input, age, prio, cond_input))
        /\ patients' = Append(patients, o)
  /\ addCount' = addCount + 1
  /\ cmdCount' = cmdCount + 1
  /\ last' = Step("add", "ui", NoLine, "none")
  /\ UNCHANGED <<selected_patient, pending_extract, current_diagnosis, patient_count,
                 estimated_wait, status, running, queueVars, backendVars, threadVars>>
  /\ UNCHANGED <<callVars, vitalVars, login>>

\* _on_treated.submit with a non-empty diagnosis
OnTreatedSubmit ==
  /\ Drained
  /\ UserReady
  /\ current_diagnosis' = TRUE
  /\ pending_extract' = TRUE
  /\ Sends(<<[cmd |-> "EXTRACT"]>>)
  /\ cmdCount' = cmdCount + 1
  /\ UNCHANGED addCount
  /\ last' = Step("treated", "ui", NoLine, "none")
  /\ UNCHANGED <<objs, patients, selected_patient, patient_count, estimated_wait, status,
                 running, queueVars, backendVars, threadVars>>
  /\ UNCHANGED <<callVars, vitalVars, login>>

\* _on_update.submit
OnUpdateSubmit(new_prio) ==
  /\ Drained
  /\ UserReady
  /\ selected_patient # 0
  /\ 1 <= new_prio /\ new_prio <= 10
  /\ Sends(<<[cmd |-> "UPDATE", id |-> objs[selected_patient].id, prio |-> new_prio]>>)
  /\ objs' = [objs EXCEPT ![selected_patient].priority = new_prio]
  /\ cmdCount' = cmdCount + 1
  /\ UNCHANGED addCount
  /\ last' = Step("update", "ui", NoLine, "none")
  /\ UNCHANGED <<patients, selected_patient, pending_extract, current_diagnosis, patient_count,
                 estimated_wait, status, running, queueVars, backendVars, threadVars>>
  /\ UNCHANGED <<callVars, vitalVars, login>>

\* _on_leave, confirmed in the dialog
OnLeave ==
  /\ Drained
  /\ UserReady
  /\ selected_patient # 0
  /\ Sends(<<[cmd |-> "LEAVE", id |-> objs[selected_patient].id]>>)
  /\ cmdCount' = cmdCount + 1
  /\ UNCHANGED addCount
  /\ last' = Step("leave", "ui", NoLine, "none")
  /\ UNCHANGED <<uiVars, running, queueVars, backendVars, threadVars>>
  /\ UNCHANGED <<callVars, vitalVars, login>>

\* _create_patient_card.on_click for the card of object o
OnClick(o) ==
  /\ Drained
  /\ running /\ timers = {}
  /\ o \in Range(patients)
  /\ selected_patient # o
  /\ selected_patient' = o
  /\ objs' = Gc(objs, patients, o, simPick)
  /\ last' = Step("click", "ui", NoLine, "none")
  /\ UNCHANGED <<patients, pending_extract, current_diagnosis, patient_count, estimated_wait,
                 status, running, queueVars, bridgeVars, backendVars, threadVars, userVars>>
  /\ UNCHANGED <<callVars, vitalVars, login>>

(* ------------------------------ timers ---------------------------------- *)
\* after(500, _safe_send_stats)
SafeSendStats ==
  /\ Drained
  /\ "stats" \in timers
  /\ running
  /\ timers' = timers \ {"stats"}
  /\ Sends(<<[cmd |-> "STATS"]>>)
  /\ last' = Step("safe_send_stats", "ui", NoLine, "none")
  /\ UNCHANGED <<uiVars, running, uiTasks, backendVars, threadVars, userVars>>
  /\ UNCHANGED <<callVars, vitalVars, login>>

\* after(600, _safe_send_list)
SafeSendList ==
  /\ Drained
  /\ "list" \in timers
  /\ "stats" \notin timers
  /\ running
  /\ timers' = timers \ {"list"}
  /\ Sends(<<[cmd |-> "LIST"]>>)
  /\ last' = Step("safe_send_list", "ui", NoLine, "none")
  /\ UNCHANGED <<uiVars, running, uiTasks, backendVars, threadVars, userVars>>
  /\ UNCHANGED <<callVars, vitalVars, login>>

(* ------------------- deferred tasks other than responses ---------------- *)
\* lambda pid=patient.id: self.bridge.send_command(f"UPDATE {pid} 1")
RunSendUpdate ==
  /\ Drained
  /\ uiTasks # <<>>
  /\ Head(uiTasks).t = "send_update"
  /\ uiTasks' = Tail(uiTasks)
  /\ Sends(<<[cmd |-> "UPDATE", id |-> Head(uiTasks).pid, prio |-> 1]>>)
  /\ last' = Step("send_update", "ui", NoLine, "none")
  /\ UNCHANGED <<uiVars, running, timers, backendVars, threadVars, userVars>>
  /\ UNCHANGED <<callVars, vitalVars, login>>

\* lambda name=patient.name: self._show_deterioration_alert(name)
RunAlert ==
  /\ Drained
  /\ uiTasks # <<>>
  /\ Head(uiTasks).t = "alert"
  /\ uiTasks' = Tail(uiTasks)
  /\ last' = Step("alert", "ui", NoLine, "alert")
  /\ UNCHANGED <<uiVars, running, timers, bridgeVars, backendVars, threadVars, userVars>>
  /\ UNCHANGED <<callVars, vitalVars, login>>

\* lambda c=connected: self._update_status(c)
UpdateStatus ==
  /\ Drained
  /\ uiTasks # <<>>
  /\ Head(uiTasks).t = "status"
  /\ uiTasks' = Tail(uiTasks)
  /\ status' = IF ~running THEN status
               ELSE IF Head(uiTasks).connected THEN "CONNECTED" ELSE "DISCONNECTED"
  /\ last' = Step("update_status", "ui", NoLine, "none")
  /\ UNCHANGED <<objs, patients, selected_patient, pending_extract, current_diagnosis,
                 patient_count, estimated_wait, running, timers, bridgeVars, backendVars,
                 threadVars, userVars>>
  /\ UNCHANGED <<callVars, vitalVars, login>>

(* ------------------------ response listener ----------------------------- *)
\* while self.running: ... line = self.bridge.read_line(): read_line returns
\* None at once when the bridge is not running, else it blocks in readline()
ListenLoop ==
  /\ listenPc = "loop"
  /\ listenPc' = IF ~running THEN "done"
                 ELSE IF ~is_running \/ proc = "none" THEN "sleep"
                 ELSE "reading"
  /\ last' = Step("listen_loop", "listener", NoLine, "none")
  /\ UNCHANGED <<uiVars, running, queueVars, bridgeVars, backendVars, simPc, simPick, monPc,
                 userVars>>
  /\ UNCHANGED <<callVars, vitalVars, login>>

\* readline() returns a line: after(0, lambda l=line: self._process_response(l)),
\* then the loop condition and read_line's entry test
ListenLine ==
  /\ listenPc = "reading"
  /\ stdout # <<>>
  /\ stdout' = Tail(stdout)
  /\ uiTasks' = IF running THEN Enqueue(uiTasks, [t |-> "resp", line |-> Head(stdout)])
                ELSE uiTasks
  /\ listenPc' = IF ~running THEN "done"
                 ELSE IF ~is_running \/ proc = "none" THEN "sleep"
                 ELSE "reading"
  /\ last' = Step("listen_line", "listener", Head(stdout), "none")
  /\ UNCHANGED <<uiVars, running, timers, is_running, proc, stdin, backendVars, simPc, simPick,
                 monPc, userVars>>
  /\ UNCHANGED <<callVars, vitalVars, login>>

\* readline() returns "": end of stream
ListenEof ==
  /\ listenPc = "reading"
  /\ stdout = <<>>
  /\ proc # "alive"
  /\ is_running' = FALSE
  /\ listenPc' = IF running THEN "sleep" ELSE "done"
  /\ last' = Step("listen_eof", "listener", NoLine, "none")
  /\ UNCHANGED <<uiVars, running, queueVars, proc, stdin, stdout, backendVars, simPc, simPick,
                 monPc, userVars>>
  /\ UNCHANGED <<callVars, vitalVars, login>>

\* time.sleep(0.5); continue: the loop condition and read_line's entry test are
\* evaluated again; a wake-up that finds nothing changed goes back to sleep
ListenWake ==
  /\ listenPc = "sleep"
  /\ ~running \/ (is_running /\ proc # "none")
  /\ listenPc' = IF ~running THEN "done" ELSE "reading"
  /\ last' = Step("listen_wake", "listener", NoLine, "none")
  /\ UNCHANGED <<uiVars, running, queueVars, bridgeVars, backendVars, simPc, simPick, monPc,
                 userVars>>
  /\ UNCHANGED <<callVars, vitalVars, login>>

(* ---------------------- deterioration scheduler ------------------------- *)
\* [p for p in self.patients if p.priority > 1]
StablePatients == { o \in Range(patients) : objs[o].priority > 1 }

\* the wait is over: stable_patients is built and random.choice picks one
SimPickPatient ==
  /\ Drained
  /\ simPc = "wait"
  /\ running
  /\ InFlight < MaxInFlight
  /\ \E o \in StablePatients : simPick' = o
  /\ simPc' = "picked"
  /\ last' = Step("sim_pick", "scheduler", NoLine, "none")
  /\ UNCHANGED <<uiVars, running, queueVars, bridgeVars, backendVars, listenPc, monPc, userVars>>
  /\ UNCHANGED <<callVars, vitalVars, login>>

\* patient.priority = 1 and the self.after calls (the third one only redraws
\* the sidebar); once the frame is torn down its callbacks no longer run
SimPromote ==
  /\ Drained
  /\ simPc = "picked"
  /\ objs' = Gc([objs EXCEPT ![simPick].priority = 1], patients, selected_patient, 0)
  /\ uiTasks' = IF running
                THEN uiTasks \o << [t |-> "send_update", pid |-> objs[simPick].id],
                                   [t |-> "alert", name |-> objs[simPick].name] >>
                ELSE uiTasks
  /\ simPick' = 0
  /\ simPc' = "wait"
  /\ last' = Step("sim_promote", "scheduler", NoLine, "none")
  /\ UNCHANGED <<patients, selected_patient, pending_extract, current_diagnosis, patient_count,
                 estimated_wait, status, running, timers, bridgeVars, backendVars, listenPc,
                 monPc, userVars>>
  /\ UNCHANGED <<callVars, vitalVars, login>>

\* if not self.running: return
SimExit ==
  /\ simPc = "wait"
  /\ ~running
  /\ simPc' = "done"
  /\ last' = Step("sim_exit", "scheduler", NoLine, "none")
  /\ UNCHANGED <<uiVars, running, queueVars, bridgeVars, backendVars, listenPc, simPick, monPc,
                 userVars>>
  /\ UNCHANGED <<callVars, vitalVars, login>>

(* --------------------------- liveness poller ---------------------------- *)
\* SystemBridge.check_alive
CheckAlive == IF proc = "none" THEN is_running ELSE proc = "alive"

\* connected = self.bridge.check_alive(); self.after(0, ...); time.sleep(1): the
\* poll period is long next to the event loop, the queue is empty when it polls;
\* a poll that changes neither is_running nor the label is left out
MonitorTick ==
  /\ monPc = "run"
  /\ running
  /\ uiTasks = <<>>
  /\ CheckAlive # is_running \/ (proc = "alive") # (status = "CONNECTED")
  /\ is_running' = CheckAlive
  /\ uiTasks' = Append(uiTasks, [t |-> "status", connected |-> proc = "alive"])
  /\ last' = Step("monitor", "poller", NoLine, "none")
  /\ UNCHANGED <<uiVars, running, timers, proc, stdin, stdout, backendVars, threadVars, userVars>>
  /\ UNCHANGED <<callVars, vitalVars, login>>

MonitorExit ==
  /\ monPc = "run"
  /\ ~running
  /\ monPc' = "done"
  /\ last' = Step("monitor_exit", "poller", NoLine, "none")
  /\ UNCHANGED <<uiVars, running, queueVars, bridgeVars, backendVars, listenPc, simPc, simPick,
                 userVars>>
  /\ UNCHANGED <<callVars, vitalVars, login>>

(* ------------------------------ shutdown -------------------------------- *)
\* TriageApp._on_close: cleanup() clears running, the bridge is closed, the
\* window is destroyed with its pending callbacks
OnClose ==
  /\ running
  /\ running' = FALSE
  /\ is_running' = FALSE
  /\ proc' = "none"
  /\ stdin' = <<>>
  /\ stdout' = <<>>
  /\ uiTasks' = <<>>
  /\ timers' = {}
  /\ last' = Step("close", "ui", NoLine, "none")
  /\ UNCHANGED <<uiVars, backendVars, threadVars, userVars>>
  /\ UNCHANGED <<callVars, vitalVars, login>>

(* ---------------------------- specification ----------------------------- *)
\* _on_logout, TriageApp.logout_handler and cleanup with is_logging_out set:
\* running is cleared and the frame destroyed with its pending callbacks; the
\* bridge stays open for the login frame, which show_login builds and whose
\* constructor starts a listener of its own
OnLogout ==
  /\ running
  /\ timers = {}
  /\ running' = FALSE
  /\ uiTasks' = <<>>
  /\ UNCHANGED timers
  /\ login' = [pc |-> "loop", is_logged_in |-> FALSE]
  /\ last' = Step("logout", "ui", NoLine, "none")
  /\ UNCHANGED <<uiVars, bridgeVars, backendVars, threadVars, userVars>>
  /\ UNCHANGED <<callVars, vitalVars>>

(* ------------------------------ login frame ----------------------------- *)
\* _attempt_login with both entries filled in: LOGIN is written to the bridge
AttemptLogin ==
  /\ ~running
  /\ login.pc # "done"
  /\ InFlight < MaxInFlight /\ cmdCount < MaxCommands
  /\ Sends(<<[cmd |-> "LOGIN"]>>)
  /\ cmdCount' = cmdCount + 1
  /\ UNCHANGED addCount
  /\ last' = Step("attempt_login", "ui", NoLine, "none")
  /\ UNCHANGED <<uiVars, running, queueVars, backendVars, threadVars>>
  /\ UNCHANGED <<callVars, vitalVars, login>>

\* the backend answers LOGIN: the credentials are accepted or not
BackendLogin ==
  /\ proc = "alive"
  /\ stdin # <<>>
  /\ Head(stdin).cmd = "LOGIN"
  /\ stdin' = Tail(stdin)
  /\ \E answer \in {"SUCCESS_LOGIN", "ERROR_LOGIN"} : stdout' = Append(stdout, [cmd |-> answer])
  /\ last' = Step("BackendLogin", "backend", Head(stdin), "none")
  /\ UNCHANGED <<uiVars, running, queueVars, is_running, proc, backendVars, threadVars, userVars>>
  /\ UNCHANGED <<callVars, vitalVars, login>>

\* listen of the login frame: while not self.is_logged_in, then read_line's
\* entry test; read_line returns None at once when the bridge is not running
\* and the loop tries again
LoginListenLoop ==
  /\ login.pc = "loop"
  /\ ~login.is_logged_in
  /\ is_running /\ proc # "none"
  /\ login' = [login EXCEPT !.pc = "reading"]
  /\ last' = Step("login_listen_loop", "login_listener", NoLine, "none")
  /\ UNCHANGED <<uiVars, running, queueVars, bridgeVars, backendVars, threadVars, userVars>>
  /\ UNCHANGED <<callVars, vitalVars>>

\* readline() returns a line to the login frame's listener: SUCCESS_LOGIN sets
\* is_logged_in, defers _on_login_success and ends the loop; ERROR_LOGIN defers
\* _on_login_failed; any other line is read and ignored
LoginListenLine ==
  /\ login.pc = "reading"
  /\ stdout # <<>>
  /\ stdout' = Tail(stdout)
  /\ LET line == Head(stdout) IN
     /\ login' = IF line.cmd = "SUCCESS_LOGIN" THEN [pc |-> "done", is_logged_in |-> TRUE]
                 ELSE [login EXCEPT !.pc = IF is_running /\ proc # "none" THEN "reading"
                                           ELSE "loop"]
     /\ uiTasks' = IF line.cmd \in {"SUCCESS_LOGIN", "ERROR_LOGIN"}
                   THEN Enqueue(uiTasks, [t |-> "login", line |-> line])
                   ELSE uiTasks
     /\ last' = Step("login_listen_line", "login_listener", line, "none")
  /\ UNCHANGED <<uiVars, running, timers, is_running, proc, stdin, backendVars, threadVars,
                 userVars>>
  /\ UNCHANGED <<callVars, vitalVars>>

\* _on_login_success and _on_login_failed, run by the event loop; the dashboard
\* that _on_login_success builds next is not followed
RunLoginResult ==
  /\ uiTasks # <<>>
  /\ Head(uiTasks).t = "login"
  /\ uiTasks' = Tail(uiTasks)
  /\ last' = Step("login_result", "ui", Head(uiTasks).line,
                  IF Head(uiTasks).line.cmd = "SUCCESS_LOGIN" THEN "logged_in"
                  ELSE "login_failed")
  /\ UNCHANGED <<uiVars, running, timers, bridgeVars, backendVars, threadVars, userVars>>
  /\ UNCHANGED <<callVars, vitalVars, login>>

(* ------------- SystemBridge, one statement at a time -------------------- *)
\* threads that call the bridge
Callers == {1, 2}
\* what start() finds at exe_path
ExeStates == {"ok", "absent", "noperm", "oserror"}
\* command texts passed to send_command
CallCmds == {"STATS", "LIST"}

Idle == [pc |-> "idle", cmd |-> "none", dead |-> FALSE, wrote |-> FALSE]

dashVars == <<uiVars, running, queueVars, stdin, stdout, backendVars, threadVars, userVars,
              vitalVars, login>>

\* the lock taken by a caller that finds it held
LockIgnored(l) == TRUE

\* with self.lock: the caller goes on once the lock is free
LockFree(l) == l = 0

\* the poll left out of send_command
PollNever(p) == FALSE

\* send_command: self.process.poll() is not None
PollDead(p) == p # "alive"

\* close terminating whatever poll() says
PollAlways(p) == TRUE

\* close: self.process.poll() is None
PollAlive(p) == p = "alive"

\* close with no handler around its first stage
CaughtAfterExit(stage) == stage # "exit"

\* close: every stage sits in try / except Exception
Caught(stage) == TRUE

\* the flag raised before the launch
StartRunningEarly(was, created) == TRUE

\* start: self.is_running = True is reached only when Popen returned
StartRunning(was, created) == IF created THEN TRUE ELSE was

SigEntry(ev) == [ev |-> ev, alive |-> proc = "alive"]

\* start(): no lock is taken; called on a bridge that holds no process
StartCall(c, exe) ==
  /\ bpc[c].pc = "idle"
  /\ proc = "none"
  /\ LET created == exe = "ok" IN
     /\ proc' = IF created THEN "alive" ELSE proc
     /\ is_running' = StartRunning(is_running, created)
     /\ ret' = [ret EXCEPT ![c] = created]
     /\ wire' = IF created THEN <<>> ELSE wire
     /\ bpc' = IF created THEN [x \in Callers |-> [bpc[x] EXCEPT !.dead = FALSE]] ELSE bpc
  /\ last' = Step("start", "bridge", [cmd |-> exe, by |-> c], "none")
  /\ UNCHANGED <<lock, sig, dashVars>>

\* the return of send_command: the with block releases the lock
SendReturn(c, v) ==
  /\ ret' = [ret EXCEPT ![c] = v]
  /\ bpc' = [bpc EXCEPT ![c] = Idle]
  /\ lock' = 0
  /\ last' = Step("send_return", "bridge", [cmd |-> bpc[c].cmd, by |-> c], "none")

\* send_command(k): with self.lock
SendBegin(c, k) ==
  /\ bpc[c].pc = "idle"
  /\ Len(wire) < 2 * MaxLines
  /\ LockFree(lock)
  /\ lock' = c
  /\ bpc' = [bpc EXCEPT ![c] = [pc |-> "s_test", cmd |-> k, dead |-> proc # "alive",
                                wrote |-> FALSE]]
  /\ last' = Step("send_begin", "bridge", [cmd |-> k, by |-> c], "none")
  /\ UNCHANGED <<is_running, proc, wire, ret, sig, dashVars>>

\* the two tests before the write
SendTest(c) ==
  /\ bpc[c].pc = "s_test"
  /\ IF ~is_running \/ proc = "none"
     THEN /\ SendReturn(c, FALSE)
          /\ UNCHANGED is_running
     ELSE IF PollDead(proc)
     THEN /\ SendReturn(c, FALSE)
          /\ is_running' = FALSE
     ELSE /\ bpc' = [bpc EXCEPT ![c].pc = "s_write"]
          /\ last' = Step("send_test", "bridge", [cmd |-> bpc[c].cmd, by |-> c], "none")
          /\ UNCHANGED <<is_running, lock, ret>>
  /\ UNCHANGED <<proc, wire, sig, dashVars>>

\* self.process.stdin.write(cmd + "\n"): the command text goes out first; on a
\* pipe whose reader is gone the write raises BrokenPipeError or another OSError
SendWrite(c) ==
  /\ bpc[c].pc = "s_write"
  /\ IF proc = "alive"
     THEN /\ wire' = Append(wire, [by |-> c, part |-> bpc[c].cmd])
          /\ bpc' = [bpc EXCEPT ![c].pc = "s_flush", ![c].wrote = TRUE]
          /\ last' = Step("send_write", "bridge", [cmd |-> bpc[c].cmd, by |-> c], "none")
          /\ UNCHANGED <<is_running, lock, ret>>
     ELSE /\ \E e \in {"BrokenPipeError", "OSError"} :
               is_running' = IF e = "BrokenPipeError" THEN FALSE ELSE is_running
          /\ SendReturn(c, FALSE)
          /\ UNCHANGED wire
  /\ UNCHANGED <<proc, sig, dashVars>>

\* the newline and the flush; return True
SendFlush(c) ==
  /\ bpc[c].pc = "s_flush"
  /\ wire' = Append(wire, [by |-> c, part |-> "\n"])
  /\ SendReturn(c, TRUE)
  /\ UNCHANGED <<is_running, proc, sig, dashVars>>

\* an exception that no handler of close catches: the with block releases the
\* lock and the caller sees the exception
ClosePropagate(c) ==
  /\ ret' = [ret EXCEPT ![c] = "raised"]
  /\ bpc' = [bpc EXCEPT ![c] = Idle]
  /\ lock' = 0
  /\ last' = Step("close_raise", "bridge", [cmd |-> "close", by |-> c], "none")
  /\ UNCHANGED <<is_running, proc, wire>>

\* close(): with self.lock: if self.process is not None
CloseBegin(c) ==
  /\ bpc[c].pc = "idle"
  /\ LockFree(lock)
  /\ lock' = c
  /\ sig' = <<>>
  /\ bpc' = [bpc EXCEPT ![c] = [Idle EXCEPT !.pc = IF proc = "none" THEN "c_finish"
                                                   ELSE "c_exit", !.cmd = "close"]]
  /\ last' = Step("close_begin", "bridge", [cmd |-> "close", by |-> c], "none")
  /\ UNCHANGED <<is_running, proc, wire, ret, dashVars>>

\* stage 1: if self.is_running: write "EXIT\n" and flush
CloseExit(c) ==
  /\ bpc[c].pc = "c_exit"
  /\ IF ~is_running
     THEN /\ bpc' = [bpc EXCEPT ![c].pc = "c_poll"]
          /\ last' = Step("close_exit", "bridge", [cmd |-> "close", by |-> c], "none")
          /\ UNCHANGED <<wire, sig, lock, ret>>
     ELSE IF proc = "alive"
     THEN /\ wire' = wire \o << [by |-> c, part |-> "EXIT"], [by |-> c, part |-> "\n"] >>
          /\ sig' = Append(sig, SigEntry("EXIT"))
          /\ bpc' = [bpc EXCEPT ![c].pc = "c_wait1"]
          /\ last' = Step("close_exit", "bridge", [cmd |-> "close", by |-> c], "none")
          /\ UNCHANGED <<lock, ret>>
     ELSE /\ sig' = Append(sig, SigEntry("EXIT_failed"))
          /\ IF Caught("exit")
             THEN /\ bpc' = [bpc EXCEPT ![c].pc = "c_poll"]
                  /\ last' = Step("close_exit", "bridge", [cmd |-> "close", by |-> c], "none")
                  /\ UNCHANGED <<wire, lock, ret>>
             ELSE ClosePropagate(c)
  /\ UNCHANGED <<is_running, proc, dashVars>>

\* stage 1: self.process.wait(timeout=2): the process exits in time, or the
\* wait raises TimeoutExpired
CloseWait1(c) ==
  /\ bpc[c].pc = "c_wait1"
  /\ \/ /\ proc' = "exited"
        /\ sig' = Append(sig, SigEntry("wait1_exited"))
        /\ bpc' = [bpc EXCEPT ![c].pc = "c_poll"]
        /\ last' = Step("close_wait1", "bridge", [cmd |-> "close", by |-> c], "none")
        /\ UNCHANGED <<is_running, wire, lock, ret>>
     \/ /\ proc = "alive"
        /\ sig' = Append(sig, SigEntry("wait1_timeout"))
        /\ IF Caught("exit")
           THEN /\ bpc' = [bpc EXCEPT ![c].pc = "c_poll"]
                /\ last' = Step("close_wait1", "bridge", [cmd |-> "close", by |-> c], "none")
                /\ UNCHANGED <<is_running, proc, wire, lock, ret>>
           ELSE ClosePropagate(c)
  /\ UNCHANGED dashVars

\* stage 2: if self.process.poll() is None
ClosePoll(c) ==
  /\ bpc[c].pc = "c_poll"
  /\ sig' = Append(sig, SigEntry("poll"))
  /\ bpc' = [bpc EXCEPT ![c].pc = IF PollAlive(proc) THEN "c_term" ELSE "c_finish"]
  /\ last' = Step("close_poll", "bridge", [cmd |-> "close", by |-> c], "none")
  /\ UNCHANGED <<is_running, proc, wire, lock, ret, dashVars>>

\* stage 2: self.process.terminate(), which may raise
CloseTerminate(c) ==
  /\ bpc[c].pc = "c_term"
  /\ \/ /\ sig' = Append(sig, SigEntry("terminate"))
        /\ bpc' = [bpc EXCEPT ![c].pc = "c_wait2"]
     \/ /\ sig' = Append(sig, SigEntry("terminate_failed"))
        /\ bpc' = [bpc EXCEPT ![c].pc = "c_kill"]
  /\ last' = Step("close_terminate", "bridge", [cmd |-> "close", by |-> c], "none")
  /\ UNCHANGED <<is_running, proc, wire, lock, ret, dashVars>>

\* stage 2: self.process.wait(timeout=1): the process exits in time, or the
\* wait raises TimeoutExpired and the handler goes on to kill
CloseWait2(c) ==
  /\ bpc[c].pc = "c_wait2"
  /\ \/ /\ proc' = "exited"
        /\ sig' = Append(sig, SigEntry("wait2_exited"))
        /\ bpc' = [bpc EXCEPT ![c].pc = "c_finish"]
     \/ /\ proc = "alive"
        /\ sig' = Append(sig, SigEntry("wait2_timeout"))
        /\ bpc' = [bpc EXCEPT ![c].pc = "c_kill"]
        /\ UNCHANGED proc
  /\ last' = Step("close_wait2", "bridge", [cmd |-> "close", by |-> c], "none")
  /\ UNCHANGED <<is_running, wire, lock, ret, dashVars>>

\* last resort: self.process.kill() inside its own try / except
CloseKill(c) ==
  /\ bpc[c].pc = "c_kill"
  /\ \/ /\ proc' = "exited"
        /\ sig' = Append(sig, SigEntry("kill"))
        /\ bpc' = [bpc EXCEPT ![c].pc = "c_finish"]
        /\ last' = Step("close_kill", "bridge", [cmd |-> "close", by |-> c], "none")
        /\ UNCHANGED <<is_running, wire, lock, ret>>
     \/ /\ sig' = Append(sig, SigEntry("kill_failed"))
        /\ IF Caught("kill")
           THEN /\ bpc' = [bpc EXCEPT ![c].pc = "c_finish"]
                /\ last' = Step("close_kill", "bridge", [cmd |-> "close", by |-> c], "none")
                /\ UNCHANGED <<is_running, proc, wire, lock, ret>>
           ELSE /\ ClosePropagate(c)
  /\ UNCHANGED dashVars

\* self.is_running = False; self.process = None; the lock is released
CloseFinish(c) ==
  /\ bpc[c].pc = "c_finish"
  /\ is_running' = FALSE
  /\ proc' = "none"
  /\ lock' = 0
  /\ ret' = [ret EXCEPT ![c] = "closed"]
  /\ bpc' = [bpc EXCEPT ![c] = Idle]
  /\ last' = Step("close_return", "bridge", [cmd |-> "close", by |-> c], "none")
  /\ UNCHANGED <<wire, sig, dashVars>>

\* check_alive(), statement by statement; it takes no lock.  What the call
\* returns is the value it leaves in is_running (False when it finds no
\* handle); an exception it ends with is noted in the step record
CheckAliveStep(c) ==
  /\ \/ /\ bpc[c].pc = "idle"
        /\ bpc' = IF proc = "none" THEN bpc
                  ELSE [bpc EXCEPT ![c] = [Idle EXCEPT !.pc = "ca_poll", !.cmd = "check_alive"]]
        /\ last' = Step("check_alive_test", "bridge", [cmd |-> "check_alive", by |-> c], "none")
        /\ UNCHANGED is_running
     \/ /\ bpc[c].pc = "ca_poll"
        /\ bpc' = [bpc EXCEPT ![c] = IF proc = "none" THEN Idle
                                     ELSE [@ EXCEPT !.pc = IF proc = "alive" THEN "ca_set_true"
                                                          ELSE "ca_set_false"]]
        /\ last' = Step("check_alive_poll", "bridge", [cmd |-> "check_alive", by |-> c],
                        IF proc = "none" THEN "AttributeError" ELSE "none")
        /\ UNCHANGED is_running
     \/ /\ bpc[c].pc \in {"ca_set_true", "ca_set_false"}
        /\ is_running' = (bpc[c].pc = "ca_set_true")
        /\ bpc' = [bpc EXCEPT ![c] = Idle]
        /\ last' = Step("check_alive_set", "bridge", [cmd |-> "check_alive", by |-> c], "none")
  /\ UNCHANGED <<proc, wire, lock, ret, sig, dashVars>>

\* read_line(), statement by statement; it takes no lock.  The entry test,
\* then self.process is loaded inside the try block (AttributeError on None is
\* caught and None returned), then readline() blocks until a line or the end
\* of the stream, which clears is_running
ReadLineStep(c) ==
  /\ \/ /\ bpc[c].pc = "idle"
        /\ bpc' = IF ~is_running \/ proc = "none" THEN bpc
                  ELSE [bpc EXCEPT ![c] = [Idle EXCEPT !.pc = "rl_load", !.cmd = "read_line"]]
        /\ last' = Step("read_line_test", "bridge", [cmd |-> "read_line", by |-> c], "none")
        /\ UNCHANGED is_running
     \/ /\ bpc[c].pc = "rl_load"
        /\ bpc' = [bpc EXCEPT ![c] = IF proc = "none" THEN Idle ELSE [@ EXCEPT !.pc = "rl_block"]]
        /\ last' = Step("read_line_load", "bridge", [cmd |-> "read_line", by |-> c],
                        IF proc = "none" THEN "caught" ELSE "none")
        /\ UNCHANGED is_running
     \/ /\ bpc[c].pc = "rl_block"
        /\ is_running' = IF proc = "alive" THEN is_running ELSE FALSE
        /\ bpc' = [bpc EXCEPT ![c] = Idle]
        /\ last' = Step("read_line_return", "bridge", [cmd |-> "read_line", by |-> c],
                        IF proc = "alive" THEN "line" ELSE "eof")
  /\ UNCHANGED <<proc, wire, lock, ret, sig, dashVars>>

(* ---------------- PatientViewModel: vitals and EKG simulation ----------- *)
\* Real-valued fields are kept in tenths (drifts, heart rate), truncated
\* toward zero.  ekg_time counts samples of dt = 0.012 s.  A sample of the
\* waveform is recorded by the time index at which it was generated; its
\* height is not modelled.
EkgLen == 200

\* priorities a record can be created with
PrioRange == 1..10

\* self._rsa_phase in steps of 2*pi/80, the advance of one frame
\* (2*pi*0.25*0.05); random.uniform picks the start
RsaSteps == 80
RsaInits == {0, 20, 40, 60}

\* int(x) of a quotient: truncation toward zero
TruncDiv(a, b) == IF a >= 0 THEN a \div b ELSE -((-a) \div b)

\* 1000 * sin(2*pi*j/80) for the first quarter of the period
SinQuarter ==
  <<0, 78, 156, 233, 309, 383, 454, 522, 588, 649, 707, 760, 809, 853, 891, 924, 951, 972,
    988, 997, 1000>>

\* 1000 * math.sin(self._rsa_phase)
Sin1000(j) ==
  LET i == j % RsaSteps IN
  IF i <= 20 THEN SinQuarter[i + 1]
  ELSE IF i <= 40 THEN SinQuarter[41 - i]
  ELSE IF i <= 60 THEN -SinQuarter[i - 39]
  ELSE -SinQuarter[81 - i]

\* drift noise of one drift update, in tenths: heart rate, SpO2, systolic,
\* diastolic (four random.gauss draws)
QuietNoise == <<0, 0, 0, 0>>
NoiseInputs == { QuietNoise, <<200, 200, 200, 200>>, <<-200, -200, -200, -200>>,
                 <<7, -2, 3, 1>> }

\* arrhythmia jitter of the two samples of a frame, in tenths
QuietArr == <<0, 0>>
ArrInputs == { QuietArr, <<165, -165>> }

\* a value passed on without limits
ClampNone(lo, hi, x) == x

\* max(lo, min(hi, x))
Clamp(lo, hi, x) ==
  LET m == IF x < hi THEN x ELSE hi IN IF m > lo THEN m ELSE lo

\* drift *= damping, with damping = 0.9
Damp(x) == TruncDiv(x * 9, 10)

\* the list with its first element kept
PopNone(buf) == buf

\* self.ekg_data.pop(0)
PopFirst(buf) == Tail(buf)

\* PatientViewModel.__init__: the part that the animation works on
PatientVitals(priority, rsa) ==
  [priority |-> priority,
   base_hr |-> CalcBaseHr(priority), base_spo2 |-> CalcBaseSpo2(priority),
   base_bp_sys |-> CalcBaseBpSys(priority), base_bp_dia |-> CalcBaseBpDia(priority),
   heart_rate |-> CalcBaseHr(priority), spo2 |-> CalcBaseSpo2(priority),
   bp_sys |-> CalcBaseBpSys(priority), bp_dia |-> CalcBaseBpDia(priority),
   hr_drift |-> 0, spo2_drift |-> 0, bp_sys_drift |-> 0, bp_dia_drift |-> 0,
   ekg_data |-> [i \in 1..EkgLen |-> 0], ekg_time |-> 0, frame_count |-> 0,
   rsa_phase |-> rsa, arrhythmia_factor |-> ArrhythmiaFactor(priority),
   beat_triggered |-> FALSE, beat_event |-> FALSE]

\* _update_vitals_drift with the four noise values n
UpdateVitalsDrift(v, n) ==
  LET hr == Clamp(-80, 80, Damp(v.hr_drift + n[1]))
      sp == Clamp(-30, 10, Damp(v.spo2_drift + n[2]))
      sy == Clamp(-80, 80, Damp(v.bp_sys_drift + n[3]))
      di == Clamp(-50, 50, Damp(v.bp_dia_drift + n[4]))
  IN [v EXCEPT !.hr_drift = hr, !.spo2_drift = sp, !.bp_sys_drift = sy, !.bp_dia_drift = di,
               !.heart_rate = TruncDiv(v.base_hr * 10 + hr
                                       + TruncDiv(30 * Sin1000(v.rsa_phase), 1000), 10),
               !.spo2 = TruncDiv(Clamp(850, 1000, v.base_spo2 * 10 + sp), 10),
               !.bp_sys = TruncDiv(v.base_bp_sys * 10 + sy, 10),
               !.bp_dia = TruncDiv(v.base_bp_dia * 10 + di, 10)]

\* _get_hrv_heart_rate, in tenths of a beat per minute; arr is the value
\* random.gauss returns when the arrhythmia factor is set
GetHrvHeartRate(v, arr) ==
  v.base_hr * 10 + v.hr_drift
  + TruncDiv((IF v.priority > 2 THEN 50 ELSE 30) * Sin1000(v.rsa_phase), 1000)
  + (IF v.arrhythmia_factor > 0 THEN arr ELSE 0)

\* phase = (ekg_time % beat_duration) / beat_duration with beat_duration =
\* 60 / hr and ekg_time = k * 0.012: the fractional part of k * hr10 / 50000,
\* kept as its numerator
PhaseUnits == 50000
PhaseOf(k, hr10) == (k * hr10) % PhaseUnits

\* the whole beats elapsed at time k for heart rate hr10: ekg_time // beat_duration
CycleOf(k, hr10) == (k * hr10) \div PhaseUnits

\* 0.22 < phase < 0.28
InWindow(ph) == 11000 < ph /\ ph < 14000

\* the sample raises the beat edge
Raises(v, arr) ==
  /\ v.priority # 1
  /\ InWindow(PhaseOf(v.ekg_time + 1, GetHrvHeartRate(v, arr)))
  /\ ~v.beat_triggered

\* _generate_ekg_point
GenerateEkgPoint(v, arr) ==
  LET k == v.ekg_time + 1
      ph == PhaseOf(k, GetHrvHeartRate(v, arr))
  IN [v EXCEPT !.ekg_time = k,
               !.beat_event = IF Raises(v, arr) THEN TRUE ELSE @,
               !.beat_triggered = IF v.priority = 1 THEN @
                                  ELSE IF Raises(v, arr) THEN TRUE
                                  ELSE IF ph >= 14000 \/ ph < 11000 THEN FALSE
                                  ELSE @,
               !.ekg_data = Append(PopFirst(@), k)]

\* update_vitals up to the drift update: frame counter, RSA phase, and the
\* drift update every tenth frame
FrameStart(v, n) ==
  LET w == [v EXCEPT !.frame_count = @ + 1, !.rsa_phase = (@ + 1) % RsaSteps]
  IN IF w.frame_count >= 10 THEN UpdateVitalsDrift([w EXCEPT !.frame_count = 0], n) ELSE w

\* what one sample adds to the record of cardiac cycles
Track(h, v, arr) ==
  LET k == v.ekg_time + 1
      hr == GetHrvHeartRate(v, arr)
      c == CycleOf(k, hr)
      b == IF Raises(v, arr) THEN 1 ELSE 0
  IN IF c # h.cycle
     THEN [cycle |-> c, beats |-> b, closed |-> h.beats, raised |-> b = 1,
           wasInside |-> h.inside, inside |-> InWindow(PhaseOf(k, hr))]
     ELSE [cycle |-> c, beats |-> h.beats + b, closed |-> h.closed, raised |-> b = 1,
           wasInside |-> h.inside, inside |-> InWindow(PhaseOf(k, hr))]

\* no sample generated yet: cycle 0 is running, no cycle has ended (-1)
NoBeats == [cycle |-> 0, beats |-> 0, closed |-> -1, raised |-> FALSE, wasInside |-> FALSE,
            inside |-> FALSE]

\* animate: update_vitals (two samples per frame), then the heartbeat sound if
\* the beat edge is up, and the edge is taken down
Animate(n, arr) ==
  /\ running
  /\ LET v0 == FrameStart(vm, n)
         v1 == GenerateEkgPoint(v0, arr[1])
         v2 == GenerateEkgPoint(v1, arr[2])
     IN /\ vm' = [v2 EXCEPT !.beat_event = FALSE]
        /\ hist' = Track(Track(hist, v0, arr[1]), v1, arr[2])
        /\ last' = Step("animate", "ui", NoLine,
                        IF v2.beat_event /\ v2.priority # 1 THEN "beat" ELSE "none")
  /\ UNCHANGED <<uiVars, running, queueVars, bridgeVars, backendVars, threadVars, userVars,
                 callVars, login>>


\* everything but the bridge's connection
InitRest ==
  /\ objs = <<>>
  /\ patients = <<>>
  /\ selected_patient = 0
  /\ pending_extract = FALSE
  /\ current_diagnosis = FALSE
  /\ patient_count = 0
  /\ estimated_wait = 0
  /\ status = "CONNECTED"
  /\ running = TRUE
  /\ uiTasks = <<>>
  /\ timers = {"stats", "list"}
  /\ stdin = <<>>
  /\ stdout = <<>>
  /\ bq = <<>>
  /\ nextId = 1
  /\ listenPc = "loop"
  /\ simPc = "wait"
  /\ simPick = 0
  /\ monPc = "run"
  /\ addCount = 0
  /\ cmdCount = 0
  /\ last = Step("init", "ui", NoLine, "none")
  /\ lock = 0
  /\ bpc = [c \in Callers |-> Idle]
  /\ wire = <<>>
  /\ ret = [c \in Callers |-> "none"]
  /\ sig = <<>>
  /\ login = [pc |-> "done", is_logged_in |-> TRUE]

\* no patient is selected: animate() has no view model to drive
NoVitals == [priority |-> 0]

InitQuiet == vm = NoVitals /\ hist = NoBeats

\* the dashboard is built after main() has started the bridge
Init ==
  /\ InitRest
  /\ InitQuiet
  /\ is_running = TRUE
  /\ proc = "alive"

\* the bridge right after SystemBridge.__init__
InitBridge ==
  /\ InitRest
  /\ InitQuiet
  /\ is_running = FALSE
  /\ proc = "none"

\* the reconciler with the user, the backend and the listener
Next ==
  \/ BackendStep
  \/ ProcessSuccessAdd
  \/ ProcessDataExtract
  \/ ProcessDataPeek
  \/ ProcessEmpty
  \/ ProcessStats
  \/ ProcessListData
  \/ ProcessSuccessUpdate
  \/ ProcessSuccessRemove
  \/ ProcessError
  \/ \E n \in NameInputs, a \in AgeInputs, p \in PrioInputs, c \in CondInputs :
       OnAddPatientSubmit(n, a, p, c)
  \/ OnTreatedSubmit
  \/ \E p \in PrioInputs : OnUpdateSubmit(p)
  \/ OnLeave
  \/ \E o \in Range(patients) : OnClick(o)
  \/ SafeSendStats
  \/ SafeSendList
  \/ ListenLoop
  \/ ListenLine
  \/ ListenEof
  \/ OnClose

Spec == Init /\ [][Next]_vars

\* the same with the deterioration scheduler and the liveness poller running,
\* and a backend that may die
NextThreads ==
  \/ Next
  \/ BackendCrash
  \/ ListenWake
  \/ RunSendUpdate
  \/ RunAlert
  \/ UpdateStatus
  \/ SimPickPatient
  \/ SimPromote
  \/ SimExit
  \/ MonitorTick
  \/ MonitorExit

SpecThreads == Init /\ [][NextThreads]_vars

\* a view model of any priority, selected and animated
InitVitals ==
  /\ InitRest
  /\ is_running = TRUE
  /\ proc = "alive"
  /\ \E p \in PrioRange, j \in RsaInits : vm = PatientVitals(p, j)
  /\ hist = NoBeats

\* the animation with drift noise and arrhythmia jitter of any size
NextVitals ==
  \E n \in NoiseInputs, a \in ArrInputs :
    vm.ekg_time < 2 * MaxDriftFrames /\ Animate(n, a)

SpecVitals == InitVitals /\ [][NextVitals]_vars

\* the animation with no drift noise and no jitter: the heart rate varies with
\* the respiratory sinus arrhythmia alone
NextEkg == vm.ekg_time < 2 * MaxFrames /\ Animate(QuietNoise, QuietArr)

SpecEkg == InitVitals /\ [][NextEkg]_vars

\* the reconciler fed by a backend that also writes lines outside the protocol
NextProtocol ==
  \/ BackendStep
  \/ \E l \in MalformedLines : BackendGarble(l)
  \/ ProcessMalformed
  \/ ProcessSuccessAdd
  \/ ProcessStats
  \/ \E n \in NameInputs, a \in AgeInputs, p \in PrioInputs, c \in CondInputs :
       OnAddPatientSubmit(n, a, p, c)
  \/ \E o \in Range(patients) : OnClick(o)
  \/ SafeSendStats
  \/ SafeSendList
  \/ ListenLoop
  \/ ListenLine
  \/ ListenEof
  \/ OnClose

SpecProtocol == Init /\ [][NextProtocol]_vars

\* tear-down: the dashboard with its three background threads, closed or
\* logged out at any moment; the threads and the backend keep taking steps
NextTeardown ==
  \/ BackendStep
  \/ BackendCrash
  \/ SafeSendStats
  \/ SafeSendList
  \/ ProcessStats
  \/ ProcessSuccessAdd
  \/ ProcessSuccessUpdate
  \/ ProcessError
  \/ \E n \in NameInputs, a \in AgeInputs, p \in PrioInputs, c \in CondInputs :
       OnAddPatientSubmit(n, a, p, c)
  \/ RunSendUpdate
  \/ RunAlert
  \/ UpdateStatus
  \/ ListenLoop
  \/ ListenLine
  \/ ListenEof
  \/ ListenWake
  \/ SimPickPatient
  \/ SimPromote
  \/ SimExit
  \/ MonitorTick
  \/ MonitorExit
  \/ OnClose
  \/ OnLogout

\* every thread that can take a step eventually takes it
TeardownFairness ==
  /\ WF_vars(BackendStep)
  /\ WF_vars(ListenLoop) /\ WF_vars(ListenLine) /\ WF_vars(ListenEof) /\ WF_vars(ListenWake)
  /\ WF_vars(SimPromote) /\ WF_vars(SimExit)
  /\ WF_vars(MonitorExit)

SpecTeardown == Init /\ [][NextTeardown]_vars /\ TeardownFairness

\* logout and the login that follows: the dashboard's listener, the login
\* frame's listener and the backend
NextLogin ==
  \/ BackendStep
  \/ BackendLogin
  \/ SafeSendStats
  \/ SafeSendList
  \/ ProcessStats
  \/ ListenLoop
  \/ ListenLine
  \/ OnLogout
  \/ AttemptLogin
  \/ LoginListenLoop
  \/ LoginListenLine
  \/ RunLoginResult

SpecLogin == Init /\ [][NextLogin]_vars

\* the bridge alone: two threads that start it, send through it and close it,
\* and a backend process that may die at any moment
NextBridge ==
  \/ \E c \in Callers, exe \in ExeStates : StartCall(c, exe)
  \/ \E c \in Callers, k \in CallCmds : SendBegin(c, k)
  \/ \E c \in Callers : SendTest(c)
  \/ \E c \in Callers : SendWrite(c)
  \/ \E c \in Callers : SendFlush(c)
  \/ \E c \in Callers : CloseBegin(c)
  \/ \E c \in Callers : CloseExit(c)
  \/ \E c \in Callers : CloseWait1(c)
  \/ \E c \in Callers : ClosePoll(c)
  \/ \E c \in Callers : CloseTerminate(c)
  \/ \E c \in Callers : CloseWait2(c)
  \/ \E c \in Callers : CloseKill(c)
  \/ \E c \in Callers : CloseFinish(c)
  \/ BackendCrash

SpecBridge == InitBridge /\ [][NextBridge]_vars

\* the connected bridge with the poller's check_alive and the listener's
\* read_line running beside close, and a backend that may die; start is not
\* called again
NextClose ==
  \/ \E c \in Callers : CheckAliveStep(c)
  \/ \E c \in Callers : ReadLineStep(c)
  \/ \E c \in Callers : CloseBegin(c)
  \/ \E c \in Callers : CloseExit(c)
  \/ \E c \in Callers : CloseWait1(c)
  \/ \E c \in Callers : ClosePoll(c)
  \/ \E c \in Callers : CloseTerminate(c)
  \/ \E c \in Callers : CloseWait2(c)
  \/ \E c \in Callers : CloseKill(c)
  \/ \E c \in Callers : CloseFinish(c)
  \/ BackendCrash

SpecClose == Init /\ [][NextClose]_vars

(* ------------------------------ properties ------------------------------ *)
IdOf(heap, o) == heap[o].id

\* EXTRACT commands not yet answered, and their answers not yet handled
OutstandingExtractions ==
  Cardinality({ i \in 1..Len(stdin) : stdin[i].cmd = "EXTRACT" })
  + Cardinality({ i \in 1..Len(stdout) : stdout[i].cmd \in {"DATA", "EMPTY"} })
  + Cardinality({ i \in 1..Len(uiTasks) :
                    uiTasks[i].t = "resp" /\ uiTasks[i].line.cmd \in {"DATA", "EMPTY"} })

\* number of unconfirmed records of a list
CountUnconfirmed(ps, heap) == Cardinality({ i \in 1..Len(ps) : heap[ps[i]].id = 0 })

\* objects of the list before the step that are no longer in it after the step
Removed == Range(patients) \ Range(patients')

\* C1: at most one extraction is outstanding at any time: an extraction
\* requested while pending_extract is set writes no second EXTRACT
C1_AtMostOneExtraction == OutstandingExtractions <= 1

\* C2: issuing EXTRACT sets pending_extract, handling a DATA or EMPTY response
\* leaves it false, and only issuing EXTRACT makes it true again
C2_PendingLifecycle ==
  [][ /\ (last'.op = "treated" => pending_extract')
      /\ (last'.op \in {"DATA_extract", "DATA_peek", "EMPTY"} => ~pending_extract')
      /\ (pending_extract' /\ ~pending_extract => last'.op = "treated") ]_vars

\* an extraction was pending and its DATA response has been handled
C2_Witness == last.op = "DATA_extract" /\ ~pending_extract /\ current_diagnosis = FALSE

\* C3: handling the confirmation of an add lowers the number of unconfirmed
\* records by exactly one, gives one unconfirmed record the confirmed id and
\* changes the id of no other record
C3_ConfirmationAssignsId ==
  [][ last'.op = "SUCCESS_ADD" =>
        /\ CountUnconfirmed(patients', objs') = CountUnconfirmed(patients, objs) - 1
        /\ \E i \in 1..Len(patients) :
             /\ IdOf(objs, patients[i]) = 0
             /\ IdOf(objs', patients[i]) = last'.line.id
             /\ \A j \in 1..Len(patients) :
                  j # i => IdOf(objs', patients[j]) = IdOf(objs, patients[j]) ]_vars

\* C4: handling an extraction DATA removes at most one record, the one with
\* the extracted id, and keeps every other record
C4_ExtractionRemovesOne ==
  [][ last'.op = "DATA_extract" =>
        /\ Cardinality(Removed) <= 1
        /\ \A o \in Removed : IdOf(objs, o) = last'.line.id \/ IdOf(objs, o) = 0
        /\ ~HasId(patients', objs', last'.line.id) ]_vars

\* C5: handling an extraction DATA clears the selection when the selected
\* record is the one removed, and leaves the selection alone otherwise
C5_SelectionFollowsRemoval ==
  [][ last'.op = "DATA_extract" =>
        selected_patient' =
          IF selected_patient # 0
             /\ (selected_patient \in Removed \/ IdOf(objs, selected_patient) = last'.line.id)
          THEN 0 ELSE selected_patient ]_vars

\* C6: handling a DATA with no extraction pending inserts a record exactly when
\* no record has that id, and selects the record of the list that has that id
C6_PeekSelectsListed ==
  [][ last'.op = "DATA_peek" =>
        /\ (Len(patients') = Len(patients) + 1) <=> ~HasId(patients, objs, last'.line.id)
        /\ Cardinality({ i \in 1..Len(patients') :
                           IdOf(objs', patients'[i]) = last'.line.id }) = 1
        /\ selected_patient' \in Range(patients')
        /\ IdOf(objs', selected_patient') = last'.line.id ]_vars

\* C7: no two records of the list have the same non-zero id
C7_UniqueIds ==
  \A i, j \in 1..Len(patients) :
    (i # j /\ IdOf(objs, patients[i]) # 0) => IdOf(objs, patients[i]) # IdOf(objs, patients[j])

\* a LIST_DATA line has been handled, the list holds at least two records and
\* exactly one of them carries the id of the line
C7_Witness ==
  /\ last.op = "LIST_DATA"
  /\ Len(patients) >= 2
  /\ Cardinality({ i \in 1..Len(patients) : IdOf(objs, patients[i]) = last.line.id }) = 1

\* C8: no two unconfirmed records of the list have the same name
C8_OneUnconfirmedPerName ==
  \A i, j \in 1..Len(patients) :
    (i # j /\ IdOf(objs, patients[i]) = 0 /\ IdOf(objs, patients[j]) = 0)
      => objs[patients[i]].name # objs[patients[j]].name

C10_SingleWriter ==
  [][ (objs' # objs \/ patients' # patients \/ selected_patient' # selected_patient
       \/ pending_extract' # pending_extract) => last'.ctx = "ui" ]_vars


(* ------------------------ properties of the bridge ---------------------- *)
\* the chunks of w form whole lines: a command text, then its newline from the
\* same caller; an unfinished last line belongs to a caller about to flush
WholeLines(w) ==
  /\ \A i \in 1..Len(w) :
       IF i % 2 = 1
       THEN /\ w[i].part # "\n"
            /\ i < Len(w) => w[i + 1] = [by |-> w[i].by, part |-> "\n"]
       ELSE w[i].part = "\n"
  /\ Len(w) % 2 = 1 => bpc[w[Len(w)].by].pc = "s_flush"

\* callers inside send_command or close
InCall == { c \in Callers : bpc[c].pc # "idle" }

\* C13: whatever the interleaving of send_command calls and close, the stream
\* written to the backend is a sequence of whole lines, and at most one caller
\* is inside send_command or close at a time (so no write runs during close)
C13_WholeLines == WholeLines(wire) /\ Cardinality(InCall) <= 1

\* both callers have written a line to the same process, and a close has
\* written its EXIT line after them
C13_Witness ==
  /\ Len(wire) >= 6
  /\ wire[1].by # wire[3].by
  /\ wire[5].part = "EXIT"

\* C14: a send_command call entered when the process has exited (and with no
\* start since) returns False, has written nothing and leaves is_running false
C14_SendAfterExit ==
  [][ \A c \in Callers :
        (last'.op = "send_return" /\ last'.line.by = c /\ bpc[c].dead)
          => (ret'[c] = FALSE /\ ~bpc[c].wrote /\ wire' = wire /\ ~is_running') ]_vars

\* a send_command found the process exited while is_running was still true
C14_Witness ==
  /\ last.op = "send_return"
  /\ proc = "exited"
  /\ ~is_running
  /\ ret[last.line.by] = FALSE
  /\ sig = <<>>

\* C15: start returns True with the bridge connected when the process was
\* created, and returns False with is_running false and no process otherwise
C15_StartResult ==
  [][ last'.op = "start"
        => IF last'.line.cmd = "ok"
           THEN ret'[last'.line.by] = TRUE /\ is_running' /\ proc' = "alive"
           ELSE ret'[last'.line.by] = FALSE /\ ~is_running' /\ proc' = "none" ]_vars

\* a start has failed on a bridge that had been connected and closed before
C15_Witness ==
  /\ last.op = "start"
  /\ last.line.cmd = "noperm"
  /\ ret[last.line.by] = FALSE
  /\ sig # <<>>

SigEvs(evs) == { i \in 1..Len(sig) : sig[i].ev \in evs }

\* C16: close sends EXIT first (when the bridge is connected) and waits; it
\* terminates only after that stage and only when the poll found the process
\* alive; it kills only after the second stage failed (terminate raised or the
\* second wait timed out); after a poll that found the process gone nothing
\* more is sent
C16_CloseStages ==
  /\ \A i \in SigEvs({"EXIT", "EXIT_failed"}) : i = 1
  /\ \A i \in SigEvs({"wait1_exited", "wait1_timeout"}) : i = 2 /\ sig[1].ev = "EXIT"
  /\ \A i \in SigEvs({"poll"}) :
       /\ \A j \in 1..(i - 1) :
            sig[j].ev \in {"EXIT", "EXIT_failed", "wait1_exited", "wait1_timeout"}
       /\ (i > 1 /\ sig[1].ev = "EXIT") => i = 3
       /\ (i = 1 /\ \E c \in Callers : bpc[c].cmd = "close") => ~is_running
       /\ ~sig[i].alive => i = Len(sig)
  /\ \A i \in SigEvs({"terminate", "terminate_failed"}) :
       i > 1 /\ sig[i - 1].ev = "poll" /\ sig[i - 1].alive
  /\ \A i \in SigEvs({"wait2_exited", "wait2_timeout"}) : i > 1 /\ sig[i - 1].ev = "terminate"
  /\ \A i \in SigEvs({"kill", "kill_failed"}) :
       i > 1 /\ sig[i - 1].ev \in {"terminate_failed", "wait2_timeout"}

\* a close went through every stage: EXIT, a timed-out wait, terminate, a
\* second timed-out wait, kill
C16_Witness ==
  /\ last.op = "close_return"
  /\ Len(sig) = 6
  /\ sig[6].ev = "kill"

\* C17: close never ends with an exception: every close returns, with
\* is_running false, the process handle dropped and the lock released
C17_CloseNeverRaises ==
  [][ /\ last'.op # "close_raise"
      /\ last'.op = "close_return"
           => (~is_running' /\ proc' = "none" /\ lock' = 0
               /\ ret'[last'.line.by] = "closed") ]_vars

\* a close has returned after its EXIT write failed on a dead pipe
C17_Witness ==
  /\ last.op = "close_return"
  /\ sig # <<>>
  /\ sig[1].ev = "EXIT_failed"
  /\ ret[last.line.by] = "closed"


(* ------------------- properties of the background threads --------------- *)
\* the response lines waiting in the deferred queue, oldest first
RespLines(q) ==
  LET r == SelectSeq(q, LAMBDA task : task.t = "resp")
  IN [i \in 1..Len(r) |-> r[i].line]

\* C11: the reconciler handles the lines in the order the backend wrote them:
\* the listener takes the oldest line of the pipe and puts it behind the lines
\* already waiting, and the reconciler always handles the line waiting longest
C11_FifoOrder ==
  [][ LET before == RespLines(uiTasks)
          after == RespLines(uiTasks')
      IN \/ after = before /\ last'.op # "listen_line"
         \/ /\ last'.op = "listen_line"
            /\ stdout' = Tail(stdout)
            /\ after = IF running THEN Append(before, Head(stdout)) ELSE before
         \/ /\ last'.ctx = "ui"
            /\ before # <<>>
            /\ last'.line = Head(before)
            /\ after = Tail(before)
         \/ last'.op \in {"close", "logout"} /\ after = <<>> ]_vars

\* the listener has handed over a line while a different line was still waiting
C11_Witness ==
  /\ last.op = "listen_line"
  /\ Len(RespLines(uiTasks)) >= 2
  /\ RespLines(uiTasks)[1] # RespLines(uiTasks)[2]

\* C12: when read_line reports end-of-stream the listener leaves its loop
C12_ListenerExitsOnEof == [][last'.op = "listen_eof" => listenPc' = "done"]_vars

\* C18: a patient the scheduler promotes has a priority above 1 at that moment
C18_PromotesOnlyStable ==
  [][last'.op = "sim_promote" => objs[simPick].priority > 1]_vars

\* C19: once running is cleared the scheduler promotes no patient, and no
\* UPDATE command is sent and no alert raised on its behalf
C19_NoPromotionAfterStop ==
  [][~running => last'.op \notin {"sim_pick", "sim_promote", "send_update", "alert"}]_vars

\* C20: once running is cleared, the listener, the scheduler and the poller
\* all terminate
C20_ThreadsTerminate ==
  (~running) ~> (listenPc = "done" /\ simPc = "done" /\ monPc = "done")


(* ----------------------- properties of the reconciler ------------------- *)
\* C21: an EMPTY line handled while an extraction is pending clears
\* pending_extract, removes no record, keeps the selection and shows the
\* "queue empty" notice
C21_EmptyClearsPending ==
  [][(last'.op = "EMPTY" /\ pending_extract)
       => /\ ~pending_extract'
          /\ patients' = patients
          /\ objs' = objs
          /\ selected_patient' = selected_patient
          /\ last'.notice = "empty"]_vars

\* an EMPTY line has been handled while an extraction was pending and records
\* are in the list
C21_Witness ==
  last.op = "EMPTY" /\ ~pending_extract /\ patients # <<>> /\ current_diagnosis

\* C22: an EMPTY line handled while pending_extract is not set shows no notice
\* and changes no record, selection or flag
C22_EmptyIgnored ==
  [][(last'.op = "EMPTY" /\ ~pending_extract)
       => /\ last'.notice = "none"
          /\ ~pending_extract'
          /\ patients' = patients
          /\ objs' = objs
          /\ selected_patient' = selected_patient]_vars

\* C24: a SUCCESS_ADD line whose name matches no unconfirmed record leaves
\* every record and the list as they were
C24_UnmatchedAddChangesNothing ==
  [][(/\ last'.op = "SUCCESS_ADD"
      /\ \A i \in 1..Len(patients) :
           \/ objs[patients[i]].id # 0
           \/ /\ objs[patients[i]].name # last'.line.name
              /\ objs[patients[i]].name # Replace(last'.line.name, "_", " "))
       => objs' = objs /\ patients' = patients]_vars

\* a SUCCESS_ADD line has been handled, an unconfirmed record is in the list and
\* no record carries the confirmed id
C24_Witness ==
  /\ last.op = "SUCCESS_ADD"
  /\ \E i \in 1..Len(patients) : objs[patients[i]].id = 0
  /\ \A i \in 1..Len(patients) : objs[patients[i]].id # last.line.id

C23_MalformedDropped ==
  [][last'.op = "malformed"
       => /\ last'.notice # "exception"
          /\ patients' = patients
          /\ objs' = objs
          /\ selected_patient' = selected_patient
          /\ pending_extract' = pending_extract
          /\ patient_count' = patient_count
          /\ estimated_wait' = estimated_wait]_vars

(* --------------------------- properties of the vitals ------------------- *)
\* C26: every record's baseline heart rate, SpO2 and blood pressure are the
\* lookup of the priority the record has now
C26_BaselinesFollowPriority ==
  \A o \in DOMAIN objs :
    /\ objs[o].base_hr = CalcBaseHr(objs[o].priority)
    /\ objs[o].base_spo2 = CalcBaseSpo2(objs[o].priority)
    /\ objs[o].base_bp_sys = CalcBaseBpSys(objs[o].priority)
    /\ objs[o].base_bp_dia = CalcBaseBpDia(objs[o].priority)


\* C27: the baseline lookup is monotone: against any other priority q, the
\* baselines a record was created with are at least (heart rate, systolic,
\* diastolic) and at most (SpO2) those of q when the record is more urgent,
\* and the other way round when q is more urgent
C27_BaselineMonotone ==
  \A q \in PrioRange :
    /\ vm.priority < q
         => /\ vm.base_hr >= CalcBaseHr(q)
            /\ vm.base_bp_sys >= CalcBaseBpSys(q)
            /\ vm.base_bp_dia >= CalcBaseBpDia(q)
            /\ vm.base_spo2 <= CalcBaseSpo2(q)
    /\ q < vm.priority
         => /\ CalcBaseHr(q) >= vm.base_hr
            /\ CalcBaseBpSys(q) >= vm.base_bp_sys
            /\ CalcBaseBpDia(q) >= vm.base_bp_dia
            /\ CalcBaseSpo2(q) <= vm.base_spo2

\* a record created with priority 3, between the most urgent band and the
\* stable ones, is being animated
C27_Witness ==
  vm.priority = 3 /\ vm.base_hr = 100 /\ vm.base_spo2 = 94 /\ last.op = "animate"

\* C28: the waveform buffer holds 200 samples in every state
C28_BufferLength == Len(vm.ekg_data) = EkgLen

\* samples have been generated: the newest two are at the end of the buffer
\* and the beginning still holds the initial fill
C28_Witness ==
  /\ vm.ekg_time >= 4
  /\ vm.ekg_data[EkgLen] = vm.ekg_time
  /\ vm.ekg_data[EkgLen - 1] = vm.ekg_time - 1
  /\ vm.ekg_data[1] = 0

\* C29: for a patient whose beat is sounded (priority other than 1), every
\* cardiac cycle that has ended had exactly one beat edge, and an edge is
\* raised only by a sample that enters the window from outside
C29_OneBeatPerCycle ==
  vm.priority # 1
    => /\ hist.closed \in {-1, 1}
       /\ hist.raised => (hist.inside /\ ~hist.wasInside)

\* C30: the four drifts stay inside their clamp ranges and the displayed SpO2
\* inside 85..100
C30_DriftBounded ==
  /\ -80 <= vm.hr_drift /\ vm.hr_drift <= 80
  /\ -30 <= vm.spo2_drift /\ vm.spo2_drift <= 10
  /\ -80 <= vm.bp_sys_drift /\ vm.bp_sys_drift <= 80
  /\ -50 <= vm.bp_dia_drift /\ vm.bp_dia_drift <= 50
  /\ 85 <= vm.spo2 /\ vm.spo2 <= 100

\* a drift update has pushed every drift to the lower end of its range
C30_Witness ==
  /\ vm.ekg_time >= 20
  /\ vm.hr_drift = -80 /\ vm.spo2_drift = -30 /\ vm.bp_sys_drift = -80 /\ vm.bp_dia_drift = -50

\* C31: the arrhythmia jitter of a record is active (its factor is above
\* zero) exactly when the priority the record has now is 1
C31_ArrhythmiaFollowsPriority ==
  \A o \in DOMAIN objs : (objs[o].arrhythmia_factor > 0) <=> (objs[o].priority = 1)

\* C32: in every quiescent state (the dashboard is up and connected, no
\* command, response or deferred task is waiting) every record of the list with
\* a non-zero id is an entry of the backend's queue
C32_QuiescentSubset ==
  (/\ running /\ is_running /\ proc = "alive"
   /\ stdin = <<>> /\ stdout = <<>> /\ uiTasks = <<>> /\ timers = {})
    => \A i \in 1..Len(patients) :
         IdOf(objs, patients[i]) # 0 => HasEntry(bq, IdOf(objs, patients[i]))

\* C33: at most one listener is reading from the channel at a time, and the
\* dashboard's listener takes a line only while its dashboard is running: after
\* a logout every line goes to the login frame's listener
C33_OneListener ==
  [][ /\ ~(listenPc' = "reading" /\ login'.pc = "reading")
      /\ last'.op = "listen_line" => running ]_vars

\* C34: while the dashboard is up, pending_extract is set only when an EXTRACT
\* that was written to the channel is still waiting for its answer or the
\* answer for being handled
C34_PendingHasCommand ==
  (running /\ pending_extract) => OutstandingExtractions >= 1

\* C35: an add whose ADD command was not written to the channel leaves no
\* unconfirmed record behind: the list and its unconfirmed records are as before
C35_AddNeedsWrite ==
  [][ (last'.op = "add" /\ stdin' = stdin)
        => /\ patients' = patients
           /\ CountUnconfirmed(patients', objs') = CountUnconfirmed(patients, objs) ]_vars

\* C36: the name round-trips: right after an add, the name carried by the ADD
\* command just written (blanks replaced by "_"), which SUCCESS_ADD will carry
\* back, matches the record the same add has put in the list
C36_NameRoundTrip ==
  (last.op = "add" /\ stdin # <<>>)
    => /\ stdin[Len(stdin)].cmd = "ADD"
       /\ NameMatches(objs[patients[Len(patients)]], stdin[Len(stdin)].name)

\* C37: the selected record is None or an element of the record list
C37_SelectionInList ==
  selected_patient = 0 \/ selected_patient \in Range(patients)

\* C38: every UPDATE and every LEAVE command written to the channel carries a
\* non-zero id
C38_CommandsCarryId ==
  \A i \in 1..Len(stdin) : stdin[i].cmd \in {"UPDATE", "LEAVE"} => stdin[i].id # 0

\* C39: whenever the bridge holds no process handle (from the return of close
\* on) is_running is false, and no check_alive or read_line call ends in an
\* exception raised on the dropped handle
C39_StaysDisconnected ==
  /\ proc = "none" => ~is_running
  /\ last.notice # "AttributeError"

====
